---- MODULE Spec2Model ----
(***************************************************************************)
(* Model of the browser-side API access layer of sveltekit-utils:          *)
(* src/src/unifiedauth.ts (token / impersonation lifecycle) and the last   *)
(* APIBase class of src/src/api.ts (readiness gate, request dispatch).     *)
(***************************************************************************)
EXTENDS Integers, Sequences, FiniteSets, Bags, TLC

(* ------------------------------------------------------------------------ *)
(* Bounds                                                                   *)
(* ------------------------------------------------------------------------ *)

\* number of impersonate() calls that may be awaiting their fetch at once
MaxInFlight == 2

\* number of request-issuing calls that may be suspended/awaiting at once
MaxPending == 2

\* request() calls that may await the answer to their fetch at once
MaxCalls == 1

\* callers of mayImpersonate / mayImpersonateAny that may await an outcome at once
MaxWaiting == 2

\* interaction events recorded in one behaviour
MaxEvents == 5

\* values (files, scalars, mappings, arrays) in the variables of one
\* graphqlWithUploads call
MaxNodes == 4

(* ------------------------------------------------------------------------ *)
(* Values                                                                   *)
(* ------------------------------------------------------------------------ *)

\* principals known to the identity service (netids)
Users == {"admin1", "user1"}

\* A token value.  kind "absent" is undefined / null (no value), kind
\* "blank" is a whitespace-only string (truthy in JS, blank for isBlank),
\* kind "jwt" is a credential with claims sub and, when delegated, act.sub.
Absent == [kind |-> "absent", sub |-> "", act |-> ""]
Blank == [kind |-> "blank", sub |-> "", act |-> ""]
Jwt(sub, act) == [kind |-> "jwt", sub |-> sub, act |-> act]

PrincipalTokens == {Jwt(u, "") : u \in Users}
DelegatedTokens == {Jwt(u, a) : u \in Users, a \in Users}
Tokens == PrincipalTokens \cup DelegatedTokens

\* a token whose claims carry act.sub is an impersonation (delegated) token
IsDelegated(t) == t.kind = "jwt" /\ t.act # ""

\* txstate-utils isBlank: undefined, null or a whitespace-only string
isBlank(t) == t.kind \in {"absent", "blank"}

\* JS truthiness of a string-or-undefined value (no empty string is modelled)
Truthy(t) == t.kind # "absent"

\* bodies the identity service may send with a non-ok answer
ErrorBodies == {"forbidden", "unknown netid"}

\* values init() may be called with: nothing, a blank string, a principal's
\* token, or a delegated token handed over in the URL
InitInputs == {Absent, Blank} \cup Tokens

VARIABLES
  token,        \* api.token
  ssToken,      \* sessionStorage 'token'
  ssOriginal,   \* sessionStorage 'originalToken'
  ready,        \* readyPromise has been resolved
  fetchSet,     \* api.fetch holds a function
  calls,        \* impersonate() calls awaiting their fetch, by slot
  nav,          \* the assignment to window.location.href made by the last step
  lastOp,       \* the operation step that produced this state and how it ended
  roundTrip,    \* progress of an impersonate / answer / exitImpersonation sequence
  pending,      \* bag of the request-issuing calls suspended on readyPromise
  sent,         \* the transport call issued by the last step
  established,  \* the token the latest init() left in api.token
  flying,       \* bag of the request() calls awaiting the answer to their fetch
  done,         \* the request() call the last step completed, with its effects
  active,       \* authorization caches: the keys with a check in flight
  kept,         \* authorization caches: the outcomes kept, by key
  waiting,      \* callers of mayImpersonate / mayImpersonateAny awaiting an outcome
  authLog,      \* what the last step of an authorization check did
  analyticsQueue, \* api.analyticsQueue
  timers,       \* the pending setTimeout callbacks of recordInteraction
  posts,        \* the POST /analytics calls issued so far, in order
  unsettled,    \* how many of those calls are still in flight
  recorded,     \* how many events recordInteraction has been given
  upload,       \* the graphqlWithUploads call the last step made
  heapRun,      \* the objects in memory before and after its replaceFiles pass
  impStatus,    \* what the last getImpersonationStatus call returned
  queryRun,     \* the stringifyQuery call of the last step
  xhrRun        \* the uploadWithProgress call in progress, and its progress reports

vars == <<token, ssToken, ssOriginal, ready, fetchSet, calls, nav, lastOp, roundTrip,
          pending, sent, established, flying, done, active, kept, waiting, authLog,
          analyticsQueue, timers, posts, unsettled, recorded, upload, heapRun,
          impStatus, queryRun, xhrRun>>

authVars == <<calls, nav, lastOp, roundTrip>>
gateVars == <<pending, sent, established>>
pipeVars == <<flying, done>>
cacheVars == <<active, kept, waiting, authLog>>
analyticsVars == <<analyticsQueue, timers, posts, unsettled, recorded>>
lateVars == <<impStatus, queryRun, xhrRun>>
restVars == <<pipeVars, cacheVars, analyticsVars, upload, heapRun, lateVars>>

(* ------------------------------------------------------------------------ *)
(* Bookkeeping                                                              *)
(* ------------------------------------------------------------------------ *)

Snap == [token |-> token, ssToken |-> ssToken, ssOriginal |-> ssOriginal]

NoSnap == [token |-> Absent, ssToken |-> Absent, ssOriginal |-> Absent]

NoCall == [busy |-> FALSE, auth |-> Absent, netid |-> ""]

\* no navigation
NoNav == [to |-> "", unifiedJwt |-> Absent, seen |-> NoSnap]

\* no error thrown
NoErr == [msg |-> "", body |-> ""]

\* no answer of the identity service
NoAnswer == [kind |-> "", token |-> Absent, body |-> ""]

NoOp == [op |-> "", out |-> "", err |-> NoErr, answer |-> NoAnswer]

\* the record of one operation step: its name, how it ended, the error it
\* threw and the identity-service answer it consumed
Op(name, out, err, answer) ==
  [op |-> name, out |-> out, err |-> err, answer |-> answer]

\* No impersonate / answer / exit sequence is under way.
NoTrip == [stage |-> 0, slot |-> 0, tok |-> Absent]

\* roundTrip after the step o on slot i, taken with api.token = tok:
\* stage 1 once impersonate has sent its request, stage 2 when the very next
\* step is that request's successful answer, stage 3 when the very next step
\* is a successful exitImpersonation; any other step ends the sequence.
TripAfter(o, i, tok) ==
  CASE o.op = "impersonate" /\ o.out = "sent" ->
         [stage |-> 1, slot |-> i, tok |-> tok]
    [] o.op = "impersonateResume" /\ o.out = "ok"
         /\ roundTrip.stage = 1 /\ roundTrip.slot = i ->
         [roundTrip EXCEPT !.stage = 2]
    [] o.op = "exitImpersonation" /\ o.out = "ok" /\ roundTrip.stage = 2 ->
         [roundTrip EXCEPT !.stage = 3]
    [] OTHER -> NoTrip

Record(o, i) ==
  /\ lastOp' = o
  /\ roundTrip' = TripAfter(o, i, token)

\* no transport call
NoSend == [verb |-> "", transport |-> "", method |-> "", path |-> "",
           inlineValidation |-> FALSE, auth |-> Absent, early |-> FALSE]

FreeSlots(f) == {i \in DOMAIN f : ~f[i].busy}
LowestFree(f) == CHOOSE i \in FreeSlots(f) : \A j \in FreeSlots(f) : i <= j

(* ------------------------------------------------------------------------ *)
(* APIBase.init                                                             *)
(* ------------------------------------------------------------------------ *)

\* variant: the slot is read whenever no token is supplied
InitTokenReloaded(t, cur, stored) == IF Truthy(t) THEN t ELSE stored

\* api.token after init(t): a truthy argument wins; otherwise an already
\* held token is kept and only an absent one is loaded from storage (??=)
InitToken(t, cur, stored) ==
  IF Truthy(t) THEN t
  ELSE IF cur.kind = "absent" THEN stored ELSE cur

\* the session-storage token slot after init(t)
InitStored(t, stored) == IF Truthy(t) THEN t ELSE stored

\* the part of init() every caller sees: fetch (kept when none is passed),
\* token, storage slot, ready()
InitCore(t, f) ==
  /\ fetchSet' = (f \/ fetchSet)
  /\ token' = InitToken(t, token, ssToken)
  /\ ssToken' = InitStored(t, ssToken)
  /\ ready' = TRUE
  /\ UNCHANGED ssOriginal

\* init() as the page's load function calls it, with its fetch
APIInit(t) ==
  /\ InitCore(t, TRUE)
  /\ nav' = NoNav
  /\ Record(Op("init", "ok", NoErr, NoAnswer), 0)
  /\ UNCHANGED <<calls, gateVars, restVars>>

(* ------------------------------------------------------------------------ *)
(* unifiedAuth.logout                                                       *)
(* ------------------------------------------------------------------------ *)

\* variant: the early return is missing
LogoutAlwaysRuns(tok) == FALSE

\* logout returns at once when there is no token
LogoutReturnsEarly(tok) == isBlank(tok)

\* the credential put on the logout URL: originalToken ?? api.token
LogoutCredential(orig, tok) == IF orig.kind # "absent" THEN orig ELSE tok

\* variant: location.href is assigned before the storage slots are removed
LogoutNavigatesFirst(s) ==
  LET cred == LogoutCredential(s.ssOriginal, s.token)
      s1 == [s EXCEPT !.token = Absent]
      s2 == [s1 EXCEPT !.ssToken = Absent]
      s3 == [s2 EXCEPT !.ssOriginal = Absent]
  IN [nav |-> [to |-> "logout", unifiedJwt |-> cred, seen |-> s1],
      final |-> s3]

\* The statements of logout after the early return, in program order, on a
\* store s: the credential is read, api.token is cleared, both storage slots
\* are removed, and then location.href is assigned.  "seen" is the store at
\* the moment of the assignment, "final" the store when logout returns.
LogoutRun(s) ==
  LET cred == LogoutCredential(s.ssOriginal, s.token)
      s1 == [s EXCEPT !.token = Absent]
      s2 == [s1 EXCEPT !.ssToken = Absent]
      s3 == [s2 EXCEPT !.ssOriginal = Absent]
  IN [nav |-> [to |-> "logout", unifiedJwt |-> cred, seen |-> s3],
      final |-> s3]

Logout ==
  /\ IF LogoutReturnsEarly(token)
     THEN /\ UNCHANGED <<token, ssToken, ssOriginal>>
          /\ nav' = NoNav
          /\ Record(Op("logout", "returned", NoErr, NoAnswer), 0)
     ELSE LET r == LogoutRun(Snap)
          IN /\ token' = r.final.token
             /\ ssToken' = r.final.ssToken
             /\ ssOriginal' = r.final.ssOriginal
             /\ nav' = r.nav
             /\ Record(Op("logout", "navigated", NoErr, NoAnswer), 0)
  /\ UNCHANGED <<ready, fetchSet, calls, gateVars, restVars>>

(* ------------------------------------------------------------------------ *)
(* unifiedAuth.impersonate                                                  *)
(* ------------------------------------------------------------------------ *)

\* variant: the authentication check is missing
ImpersonateUnchecked(tok) == TRUE

\* impersonate throws 'Must be authenticated to impersonate.' without a token
ImpersonateAllowed(tok) == ~isBlank(tok)

\* the error of that throw
ImpersonateDenied == [msg |-> "Must be authenticated to impersonate.", body |-> ""]

\* the value impersonate writes to the originalToken slot before the fetch
ImpersonateSaved(tok, orig) == tok

\* the POST /impersonate request: Authorization carries the local
\* originalToken, the body carries the netid
ImpersonateRequest(tok, netid) == [busy |-> TRUE, auth |-> tok, netid |-> netid]

\* First half of impersonate(netid), up to the await of fetch.
Impersonate(netid) ==
  /\ IF ~ImpersonateAllowed(token)
     THEN /\ UNCHANGED <<ssOriginal, calls>>
          /\ Record(Op("impersonate", "threw", ImpersonateDenied, NoAnswer), 0)
     ELSE /\ FreeSlots(calls) # {}
          /\ LET i == LowestFree(calls)
                 req == ImpersonateRequest(token, netid)
             IN /\ ssOriginal' = ImpersonateSaved(token, ssOriginal)
                /\ calls' = [calls EXCEPT ![i] = req]
                /\ Record(Op("impersonate", "sent", NoErr, NoAnswer), i)
  /\ nav' = NoNav
  /\ UNCHANGED <<token, ssToken, ready, fetchSet, gateVars, restVars>>

\* What the identity service may answer to a request: a delegated token for
\* the netid, acting for the authenticated subject or for the principal the
\* credential itself acts for; a non-ok status with a body; or no answer
\* at all (fetch rejects).
ServiceAnswers(req) ==
  {[kind |-> "ok", token |-> Jwt(req.netid, a), body |-> ""] :
      a \in {req.auth.sub, req.auth.act} \ {""}}
  \cup {[kind |-> "rejected", token |-> Absent, body |-> b] : b \in ErrorBodies}
  \cup {[kind |-> "failed", token |-> Absent, body |-> ""]}

\* variant: the token of the answer is stored whatever the status
ImpersonateTokenAlways(r, cur) == r.token

\* api.token (and the token slot) after the answer r arrived
ImpersonateToken(r, cur) == IF r.kind = "ok" THEN r.token ELSE cur

\* how impersonate ends on the answer r
ImpersonateOutcome(r) ==
  CASE r.kind = "ok" -> "ok"
    [] r.kind = "rejected" -> "threw"
    [] OTHER -> "failed"

\* what impersonate throws on the answer r: its own error with the text of
\* a non-ok response, or the rejection of fetch itself
ImpersonateError(r) ==
  CASE r.kind = "rejected" -> [msg |-> "Failed to impersonate: ", body |-> r.body]
    [] r.kind = "failed" -> [msg |-> "fetch failed", body |-> ""]
    [] OTHER -> NoErr

\* Second half of impersonate: the fetch of slot i settles with one of the
\* answers the service may give, and the rest of the function runs.
ImpersonateResume(i) ==
  /\ calls[i].busy
  /\ \E r \in ServiceAnswers(calls[i]) :
       /\ token' = ImpersonateToken(r, token)
       /\ ssToken' = ImpersonateToken(r, ssToken)
       /\ Record(Op("impersonateResume", ImpersonateOutcome(r), ImpersonateError(r), r), i)
  /\ calls' = [calls EXCEPT ![i] = NoCall]
  /\ nav' = NoNav
  /\ UNCHANGED <<ssOriginal, ready, fetchSet, gateVars, restVars>>

(* ------------------------------------------------------------------------ *)
(* unifiedAuth.exitImpersonation                                            *)
(* ------------------------------------------------------------------------ *)

\* variant: the check of the originalToken slot is missing
ExitUnchecked(orig) == TRUE

\* exitImpersonation throws when the originalToken slot yields nothing
ExitAllowed(orig) == Truthy(orig)

\* the error of that throw
ExitDenied ==
  [msg |-> "No original token found. Not currently impersonating.", body |-> ""]

\* variant: the restored token is not written back to the token slot
ExitStoreMemoryOnly(s) ==
  [token |-> s.ssOriginal, ssToken |-> s.ssToken, ssOriginal |-> Absent]

\* the store after a successful exitImpersonation
ExitStore(s) ==
  [token |-> s.ssOriginal, ssToken |-> s.ssOriginal, ssOriginal |-> Absent]

ExitImpersonation ==
  /\ IF ~ExitAllowed(ssOriginal)
     THEN /\ UNCHANGED <<token, ssToken, ssOriginal>>
          /\ Record(Op("exitImpersonation", "threw", ExitDenied, NoAnswer), 0)
     ELSE LET s == ExitStore(Snap)
          IN /\ token' = s.token
             /\ ssToken' = s.ssToken
             /\ ssOriginal' = s.ssOriginal
             /\ Record(Op("exitImpersonation", "ok", NoErr, NoAnswer), 0)
  /\ nav' = NoNav
  /\ UNCHANGED <<ready, fetchSet, calls, gateVars, restVars>>

(* ------------------------------------------------------------------------ *)
(* Values of the request pipeline                                           *)
(* ------------------------------------------------------------------------ *)

\* A response body: the text received and, when that text is JSON, what it
\* parses to.  shape "object": a JSON object with its message, data and
\* errors members (hasErrors: the errors member is present); shape "array":
\* a JSON array, message being that of its first element; shape "text":
\* text that is not JSON; shape "malformed": text cut short, not JSON either.
\* An empty message stands for an absent one.
Body(shape, text, message, data, hasErrors, errors) ==
  [shape |-> shape, text |-> text, message |-> message, data |-> data,
   hasErrors |-> hasErrors, errors |-> errors]

NoBody == Body("", "", "", "", FALSE, <<>>)

\* the messages of the entries of a GraphQL errors list
GqlMessages == {"no such field", "not allowed"}

GqlErrorLists ==
  {<<>>, <<"no such field">>, <<"not allowed", "no such field">>}

Bodies ==
  {Body("object", "{message}", "name is required", "", FALSE, <<>>),
   Body("object", "{}", "", "", FALSE, <<>>),
   Body("object", "{data}", "", "rows", FALSE, <<>>),
   Body("array", "[{message}]", "first of many", "", FALSE, <<>>),
   Body("text", "Service unavailable", "", "", FALSE, <<>>),
   Body("malformed", "{mess", "", "", FALSE, <<>>)}
  \cup {Body("object", "{data,errors}", "", "rows", TRUE, es) : es \in GqlErrorLists}

Statuses == {200, 201, 401, 422, 500}

JsonType == "application/json; charset=utf-8"

\* the content-type headers of the responses; a response without the header
\* is handled like one with a header that does not announce JSON
ContentTypes == {JsonType, "text/plain"}

\* What a fetch settles with: a response, or a rejection (failure names the
\* reason).
Response(status, contentType, body) ==
  [failure |-> "", status |-> status, contentType |-> contentType, body |-> body]

FetchFailure(reason) ==
  [failure |-> reason, status |-> 0, contentType |-> "", body |-> NoBody]

Responses == {Response(st, ct, b) : st \in Statuses, ct \in ContentTypes, b \in Bodies}

Answers == Responses \cup {FetchFailure("Failed to fetch")}

NoAnswerYet == FetchFailure("")

\* errors and returned values
NoError == [kind |-> "", status |-> 0, message |-> ""]

NoValue == [as |-> "", body |-> NoBody]

\* no request() call completed in the last step
NoDone ==
  [verb |-> "", answer |-> NoAnswerYet, effects |-> <<>>, out |-> "",
   value |-> NoValue, err |-> NoError]

(* ------------------------------------------------------------------------ *)
(* Values of the authorization checks                                       *)
(* ------------------------------------------------------------------------ *)

\* The key of an authorization check: the cache asked ("any" for
\* mayImpersonateAny, "netid" for mayImpersonate), the token of the api and,
\* for mayImpersonate, the netid asked about.
CacheKey(cache, tok, netid) == [cache |-> cache, token |-> tok, netid |-> netid]

NoKey == CacheKey("", Absent, "")

\* What the fetch of /mayImpersonate settles with: a rejection, or a response
\* (ok: resp.ok; parses: resp.json() succeeds; authorized: that member of the
\* body, "absent" when the body has none).
AuthAnswer(failure, ok, parses, authorized) ==
  [failure |-> failure, ok |-> ok, parses |-> parses, authorized |-> authorized]

AuthAnswers ==
  {AuthAnswer("Failed to fetch", FALSE, FALSE, "absent")}
  \cup {AuthAnswer("", ok, TRUE, z) : ok \in BOOLEAN, z \in {"true", "false", "absent"}}
  \cup {AuthAnswer("", ok, FALSE, "absent") : ok \in BOOLEAN}

NoAuthAnswer == AuthAnswer("", FALSE, FALSE, "")

\* one step of an authorization check: what it did (op), for which key, what
\* it resolved its callers with (result), how many network requests it issued,
\* how many callers it resolved, and the answer it had from the service
AuthLog(op, key, result, requests, delivered, answer) ==
  [op |-> op, key |-> key, result |-> result, requests |-> requests,
   delivered |-> delivered, answer |-> answer]

NoAuthLog == AuthLog("", NoKey, "", 0, 0, NoAuthAnswer)

\* A value in the variables of a GraphQL call.  t "file": a File, with its
\* name; t "scalar": a string, number, boolean or null; t "obj": a mapping,
\* kids being the values of its keys in for..in order; t "arr": an array, kids
\* being its elements; t "info": an APIUploadInfo placeholder, with the name
\* of the file it stands for and its multipartIndex.
Node(t, name, index, kids) == [t |-> t, name |-> name, index |-> index, kids |-> kids]

\* A graphqlWithUploads call: the variables and omitUploads option it was
\* given and, once it ran, the variables it sends, the files it collected,
\* the way it sends them ("json" through graphql(), "multipart" through
\* uploadWithProgress()) and the file parts of the form.
UploadCall(mode, input, omitUploads, variables, files, parts) ==
  [mode |-> mode, input |-> input, omitUploads |-> omitUploads,
   variables |-> variables, files |-> files, parts |-> parts]

NoUpload == UploadCall("", Node("", "", 0, <<>>), FALSE, Node("", "", 0, <<>>), <<>>, <<>>)

(* ------------------------------------------------------------------------ *)
(* Specification of the token / impersonation lifecycle                     *)
(* ------------------------------------------------------------------------ *)

\* A freshly constructed APIBase in a tab whose session storage is empty or
\* holds the token an earlier page load of the same tab persisted.
\* no replaceFiles pass made
NoHeapRun == [before |-> <<>>, root |-> 0, heap |-> <<>>, ref |-> 0, files |-> <<>>]

NoStatus == [asked |-> FALSE]

NoQueryRun == [asked |-> FALSE, query |-> <<>>, returned |-> FALSE, out |-> <<>>]

\* the outcome of a promise not settled yet
NoOutcome == [kind |-> "", why |-> ""]

\* no uploadWithProgress call made
NoXhrRun == [pc |-> "", auth |-> Absent, log |-> <<>>, outcome |-> NoOutcome]

Constructed ==
  /\ token = Absent
  /\ ssToken \in {Absent} \cup PrincipalTokens
  /\ ssOriginal = Absent
  /\ ready = FALSE
  /\ fetchSet = FALSE
  /\ calls = [i \in 1..MaxInFlight |-> NoCall]
  /\ nav = NoNav
  /\ lastOp = NoOp
  /\ roundTrip = NoTrip
  /\ pending = EmptyBag
  /\ sent = NoSend
  /\ established = Absent
  /\ flying = EmptyBag
  /\ done = NoDone
  /\ active = EmptyBag
  /\ kept = {}
  /\ waiting = EmptyBag
  /\ authLog = NoAuthLog
  /\ analyticsQueue = <<>>
  /\ timers = <<>>
  /\ posts = <<>>
  /\ unsettled = 0
  /\ recorded = 0

\* ... on a page that has called nothing yet
Init ==
  /\ Constructed
  /\ upload = NoUpload
  /\ heapRun = NoHeapRun
  /\ impStatus = NoStatus
  /\ queryRun = NoQueryRun
  /\ xhrRun = NoXhrRun

Next ==
  \/ \E t \in InitInputs : APIInit(t)
  \/ Logout
  \/ \E n \in Users : Impersonate(n)
  \/ \E i \in 1..MaxInFlight : ImpersonateResume(i)
  \/ ExitImpersonation

Spec == Init /\ [][Next]_vars

(* ------------------------------------------------------------------------ *)
(* Readiness gate: APIBase.request and APIBase.uploadWithProgress           *)
(* ------------------------------------------------------------------------ *)

\* the request-issuing operations of APIBase
Verbs ==
  {"get", "post", "put", "patch", "delete",
   "validatedPost", "validatedPut", "validatedPatch",
   "graphql", "uploadWithProgress"}

\* what each operation hands to request(), or to the XMLHttpRequest of
\* uploadWithProgress
VerbRoute(v) ==
  CASE v = "get" ->
         [transport |-> "fetch", method |-> "GET", path |-> "path", inlineValidation |-> FALSE]
    [] v = "post" ->
         [transport |-> "fetch", method |-> "POST", path |-> "path", inlineValidation |-> FALSE]
    [] v = "put" ->
         [transport |-> "fetch", method |-> "PUT", path |-> "path", inlineValidation |-> FALSE]
    [] v = "patch" ->
         [transport |-> "fetch", method |-> "PATCH", path |-> "path", inlineValidation |-> FALSE]
    [] v = "validatedPost" ->
         [transport |-> "fetch", method |-> "POST", path |-> "path", inlineValidation |-> TRUE]
    [] v = "validatedPut" ->
         [transport |-> "fetch", method |-> "PUT", path |-> "path", inlineValidation |-> TRUE]
    [] v = "validatedPatch" ->
         [transport |-> "fetch", method |-> "PATCH", path |-> "path", inlineValidation |-> TRUE]
    [] v = "delete" ->
         [transport |-> "fetch", method |-> "DELETE", path |-> "path", inlineValidation |-> FALSE]
    [] v = "graphql" ->
         [transport |-> "fetch", method |-> "POST", path |-> "/graphql", inlineValidation |-> FALSE]
    [] v = "uploadWithProgress" ->
         [transport |-> "xhr", method |-> "POST", path |-> "path", inlineValidation |-> FALSE]

\* the calls that can be suspended: an operation, called before or after
\* ready() was first called
Suspended == [verb : Verbs, early : BOOLEAN]

\* init() as the request pipeline sees it
GateInit(t, f) ==
  /\ InitCore(t, f)
  /\ established' = token'
  /\ sent' = NoSend
  /\ UNCHANGED <<authVars, pending, restVars>>

\* A request-issuing operation is called: it runs up to its first statement,
\* await this.readyPromise, and is suspended there.
RequestCall(v) ==
  /\ BagCardinality(pending) < MaxPending
  /\ pending' = pending (+) SetToBag({[verb |-> v, early |-> ~ready]})
  /\ sent' = NoSend
  /\ UNCHANGED <<token, ssToken, ssOriginal, ready, fetchSet, authVars, established,
               restVars>>

\* variant: the call does not await readyPromise
GateIgnored(r) == TRUE

\* await this.readyPromise lets the call continue once ready() has been called
GateOpen(r) == r

\* the transport call a resumed operation issues, with the token of that
\* moment; with no api.fetch the call of this.fetch throws and nothing is
\* issued (transport "none")
Transport(p, tok, hasFetch) ==
  LET r == VerbRoute(p.verb)
      via == IF r.transport = "fetch" /\ ~hasFetch THEN "none" ELSE r.transport
  IN [verb |-> p.verb, transport |-> via, method |-> r.method,
      path |-> r.path, inlineValidation |-> r.inlineValidation,
      auth |-> tok, early |-> p.early]

\* The suspended call p resumes after the await and issues its transport
\* call (fetch, or the XMLHttpRequest of uploadWithProgress).
RequestDispatch(p) ==
  /\ BagIn(p, pending)
  /\ GateOpen(ready)
  /\ sent' = Transport(p, token, fetchSet)
  /\ pending' = pending (-) SetToBag({p})
  /\ UNCHANGED <<token, ssToken, ssOriginal, ready, fetchSet, authVars, established,
               restVars>>

NextGate ==
  \/ \E t \in InitInputs, f \in BOOLEAN : GateInit(t, f)
  \/ \E v \in Verbs : RequestCall(v)
  \/ \E p \in Suspended : RequestDispatch(p)

SpecGate == Init /\ [][NextGate]_vars

\* the transports
Transports == {"fetch", "xhr"}

\* C10: no operation issues its transport call before init() has resolved
\* the ready signal; a suspended call is dispatched with the token init()
\* established; once resolved the signal stays resolved, also across further
\* init() calls, and every call suspended then can proceed at once.
C10_ReadinessGate ==
  /\ [](ready => \A p \in BagToSet(pending) : ENABLED RequestDispatch(p))
  /\ [](~ready => (sent = NoSend /\ established = Absent))
  /\ [][/\ ready => ready'
        /\ sent' # NoSend
             => (/\ ready
                 /\ sent'.verb \in Verbs
                 /\ sent'.transport \in Transports
                      => (sent'.auth = established /\ sent'.auth = token))]_vars

\* C10 witness: a call made before init() has just been dispatched, with the
\* token init() established
C10_Witness ==
  /\ sent.transport \in Transports /\ sent.early
  /\ ready
  /\ sent.auth \in Tokens /\ sent.auth = established

(* ------------------------------------------------------------------------ *)
(* Properties of the token / impersonation lifecycle                        *)
(* ------------------------------------------------------------------------ *)

\* C1: in every reachable state originalToken is set if and only if the
\* current token is a delegated (impersonation) token, and originalToken is
\* never set while the current token is absent.
C1_SessionInvariant ==
  /\ (ssOriginal # Absent) <=> IsDelegated(token)
  /\ (ssOriginal # Absent) => (token # Absent)

\* C2: an impersonate() that sends its request while the session is already
\* impersonating (current token delegated, originalToken holding a
\* principal's token) leaves originalToken as it is: the root principal's
\* token is never replaced by a delegated one.
C2_NestedKeepsRoot ==
  [][(/\ lastOp'.op = "impersonate" /\ lastOp'.out = "sent"
      /\ IsDelegated(token)
      /\ Truthy(ssOriginal) /\ ~IsDelegated(ssOriginal))
     => (ssOriginal' = ssOriginal /\ ~IsDelegated(ssOriginal'))]_vars

\* C3: whenever logout runs while the current token is a delegated token,
\* the credential put on the logout URL is not a delegated token.
C3_LogoutUsesOriginal ==
  [][(lastOp'.op = "logout" /\ ~isBlank(token) /\ IsDelegated(token))
     => (nav'.to = "logout" /\ ~IsDelegated(nav'.unifiedJwt))]_vars

\* C4: a logout step taken with no current token changes neither api.token
\* nor the two storage slots, sends nothing and navigates nowhere.
C4_LogoutNoTokenNoop ==
  [][(lastOp'.op = "logout" /\ isBlank(token))
     => (/\ token' = token /\ ssToken' = ssToken /\ ssOriginal' = ssOriginal
         /\ calls' = calls
         /\ nav' = NoNav)]_vars

\* C4 witness: logout has just returned early in a session without a token
C4_Witness ==
  /\ lastOp.op = "logout" /\ lastOp.out = "returned"
  /\ isBlank(token)
  /\ nav = NoNav

\* C5: a logout step taken with a current token leaves api.token and both
\* storage slots absent and navigates to the logout URL with unifiedJwt set
\* to the token (the original one when stored, else the current one); at the
\* moment of the navigation the three are already absent.
C5_LogoutClearsThenNavigates ==
  [][(lastOp'.op = "logout" /\ ~isBlank(token))
     => (/\ token' = Absent /\ ssToken' = Absent /\ ssOriginal' = Absent
         /\ nav'.to = "logout"
         /\ nav'.unifiedJwt = (IF ssOriginal # Absent THEN ssOriginal ELSE token)
         /\ nav'.seen = NoSnap)]_vars

\* C5 witness: logout has just navigated carrying a real token
C5_Witness ==
  /\ lastOp.op = "logout" /\ lastOp.out = "navigated"
  /\ nav.to = "logout" /\ nav.unifiedJwt \in Tokens
  /\ token = Absent

\* C6: an impersonate step taken with no current token throws the
\* precondition error, sends no request and changes no token or slot.
C6_ImpersonateNeedsToken ==
  [][(lastOp'.op = "impersonate" /\ isBlank(token))
     => (/\ lastOp'.out = "threw"
         /\ lastOp'.err.msg = "Must be authenticated to impersonate."
         /\ calls' = calls
         /\ token' = token /\ ssToken' = ssToken
         /\ ssOriginal' = ssOriginal)]_vars

\* C6 witness: impersonate has just thrown in a session without a token
C6_Witness ==
  /\ lastOp.op = "impersonate" /\ lastOp.out = "threw"
  /\ isBlank(token)

\* C7: the request impersonate sends carries the token current at the call;
\* a success answer makes api.token and the token slot the returned
\* delegated token; a rejection makes impersonate throw with the service's
\* body and leaves both as they were; so does a failed fetch.
C7_ImpersonateOverwritesOnSuccess ==
  [][/\ (lastOp'.op = "impersonate" /\ lastOp'.out = "sent")
          => \E i \in DOMAIN calls :
                /\ ~calls[i].busy /\ calls'[i].busy
                /\ calls'[i].auth = token
                /\ \A j \in DOMAIN calls \ {i} : calls'[j] = calls[j]
                /\ token' = token /\ ssToken' = ssToken
     /\ (lastOp'.op = "impersonateResume" /\ lastOp'.answer.kind = "ok")
          => (/\ lastOp'.out = "ok"
              /\ IsDelegated(lastOp'.answer.token)
              /\ token' = lastOp'.answer.token
              /\ ssToken' = lastOp'.answer.token)
     /\ (lastOp'.op = "impersonateResume" /\ lastOp'.answer.kind = "rejected")
          => (/\ lastOp'.out = "threw"
              /\ lastOp'.err.body = lastOp'.answer.body
              /\ token' = token /\ ssToken' = ssToken)
     /\ (lastOp'.op = "impersonateResume" /\ lastOp'.answer.kind = "failed")
          => (lastOp'.out = "failed" /\ token' = token /\ ssToken' = ssToken)
    ]_vars

\* C7 witness: a rejection has just been thrown with the service's body
\* while the session still holds its token
C7_Witness ==
  /\ lastOp.op = "impersonateResume" /\ lastOp.out = "threw"
  /\ lastOp.err.body \in ErrorBodies
  /\ token \in PrincipalTokens /\ ssToken = token

\* C8: an exitImpersonation step taken with the originalToken slot absent
\* throws the not-impersonating error and changes no token or slot.
C8_ExitNeedsOriginal ==
  [][(lastOp'.op = "exitImpersonation" /\ ssOriginal = Absent)
     => (/\ lastOp'.out = "threw"
         /\ lastOp'.err.msg = "No original token found. Not currently impersonating."
         /\ token' = token /\ ssToken' = ssToken
         /\ ssOriginal' = ssOriginal)]_vars

\* C8 witness: exitImpersonation has just thrown in a session holding a token
C8_Witness ==
  /\ lastOp.op = "exitImpersonation" /\ lastOp.out = "threw"
  /\ ssOriginal = Absent
  /\ token \in Tokens

\* C9: after impersonate from a non-impersonating session with token T, its
\* successful answer and then exitImpersonation, api.token and the token
\* slot are T again and originalToken is absent, so that another
\* exitImpersonation throws.
C9_RoundTrip ==
  (roundTrip.stage = 3 /\ ~IsDelegated(roundTrip.tok))
    => /\ token = roundTrip.tok
       /\ ssToken = roundTrip.tok
       /\ ssOriginal = Absent
       /\ ~ExitAllowed(ssOriginal)

\* C9 witness: such a round trip has just been completed
C9_Witness ==
  /\ roundTrip.stage = 3 /\ roundTrip.tok \in PrincipalTokens
  /\ lastOp.op = "exitImpersonation" /\ lastOp.out = "ok"


(* ------------------------------------------------------------------------ *)
(* Request pipeline: APIBase.request after the gate, and APIBase.graphql     *)
(* ------------------------------------------------------------------------ *)

\* the operations that go through request()
FetchVerbs == {v \in Verbs : VerbRoute(v).transport = "fetch"}

\* resp.ok
IsOk(status) == status >= 200 /\ status <= 299

\* resp.statusText
StatusText(status) ==
  CASE status = 200 -> "OK"
    [] status = 201 -> "Created"
    [] status = 401 -> "Unauthorized"
    [] status = 422 -> "Unprocessable Entity"
    [] status = 500 -> "Internal Server Error"
    [] OTHER -> ""

\* contentType && contentType.indexOf("application/json") !== -1
IsJsonResponse(a) == a.contentType # "" /\ a.contentType = JsonType

\* the text of a body parses as JSON
Parses(b) == b.shape \in {"object", "array"}

JsonValue(b) == [as |-> "json", body |-> b]

TextValue(b) == [as |-> "text", body |-> b]

\* a string that did not come from the body
StringValue(str) == TextValue(Body("text", str, "", "", FALSE, <<>>))

\* the unifiedAuth.loginRedirect URL, as a string
LoginRedirect(currentUrl) == "authRedirect?requestedUrl=" \o currentUrl

\* window.location.href of the page that made the call
CurrentHref == "currentPage"

Effect(e, arg) == [e |-> e, arg |-> arg]

\* SvelteKit's error(status, message): the message becomes body.message, and
\* with no message body.message is "Error: <status>"
HttpError(status, message) ==
  [kind |-> "HttpError", status |-> status, message |-> message]

HttpErrorNoBody(status) == HttpError(status, "Error: " \o ToString(status))

\* variant: a 401 is treated like any other rejection
IsUnauthorizedNever(a) == FALSE

\* resp.status === 401
IsUnauthorized(a) == a.status = 401

\* variant: every 422 is a rejection, with or without inlineValidation
IsRejectedAlways(a, inlineValidation) == ~IsOk(a.status)

\* !resp.ok && !(resp.status === 422 && opts?.inlineValidation)
IsRejected(a, inlineValidation) ==
  ~IsOk(a.status) /\ ~(a.status = 422 /\ inlineValidation)

\* (isJsonResponse ? await rescue(resp.json()) : await rescue(resp.text()))
\*   ?? resp.statusText
ErrorBody(a) ==
  IF IsJsonResponse(a)
    THEN IF Parses(a.body) THEN JsonValue(a.body) ELSE StringValue(StatusText(a.status))
    ELSE TextValue(a.body)

\* the message request() gives the error of a rejected response
ErrorMessage(v) ==
  IF v.as = "text" THEN v.body.text
  ELSE IF v.body.shape = "object" /\ v.body.message # "" THEN v.body.message
  ELSE IF v.body.shape = "array" /\ v.body.message # "" THEN v.body.message
  ELSE ""

Thrown(effects, err) ==
  [effects |-> effects, out |-> "throw", value |-> NoValue, err |-> err]

Returned(effects, value) ==
  [effects |-> effects, out |-> "return", value |-> value, err |-> NoError]

\* (isJsonResponse ? await resp.json() : await resp.text())
Decode(a) ==
  IF IsJsonResponse(a)
    THEN IF Parses(a.body)
           THEN Returned(<<>>, JsonValue(a.body))
           ELSE Thrown(<<>>, [kind |-> "SyntaxError", status |-> 0,
                              message |-> "Unexpected end of JSON input"])
    ELSE Returned(<<>>, TextValue(a.body))

\* the try block of request(), from the moment the fetch settles
RequestTry(a, inlineValidation) ==
  IF a.failure # ""
    THEN Thrown(<<>>, [kind |-> "TypeError", status |-> 0, message |-> a.failure])
  ELSE IF IsRejected(a, inlineValidation)
    THEN IF IsUnauthorized(a)
           THEN Thrown(<<Effect("loginRedirect", CurrentHref),
                         Effect("navigate", LoginRedirect(CurrentHref))>>,
                       HttpErrorNoBody(401))
           ELSE Thrown(<<>>, HttpError(a.status, ErrorMessage(ErrorBody(a))))
  ELSE Decode(a)

\* e.body?.message ?? e.message
ToastMessage(e) == e.message

\* variant: the catch block re-throws without telling the notifier
RequestCatchSilent(o) == o

\* the catch block of request(): toasts.add, then throw e
RequestCatch(o) ==
  IF o.out = "throw"
    THEN Thrown(o.effects \o <<Effect("notify", ToastMessage(o.err))>>, o.err)
    ELSE o

Request(a, inlineValidation) == RequestCatch(RequestTry(a, inlineValidation))

\* JSON.stringify(gqlresponse.errors)
StringifyErrors(errors) ==
  LET item(i) == "{\"message\":\"" \o errors[i] \o "\"}"
      join[i \in 0..Len(errors)] ==
        IF i = 0 THEN ""
        ELSE IF i = 1 THEN item(1)
        ELSE join[i - 1] \o "," \o item(i)
  IN "[" \o join[Len(errors)] \o "]"

\* gqlresponse.errors?.length
HasGqlErrors(v) ==
  v.as = "json" /\ v.body.shape = "object" /\ v.body.hasErrors /\ Len(v.body.errors) > 0

\* variant: graphql() returns the data also when the body lists errors
GraphqlLenient(o) ==
  IF o.out = "throw" THEN o
  ELSE Returned(o.effects, [as |-> "data", body |-> o.value.body])

\* graphql() after its request() call settled
Graphql(o) ==
  IF o.out = "throw" THEN o
  ELSE IF HasGqlErrors(o.value)
    THEN Thrown(o.effects \o <<Effect("notify", o.value.body.errors[1])>>,
                [kind |-> "Error", status |-> 0,
                 message |-> StringifyErrors(o.value.body.errors)])
  ELSE Returned(o.effects, [as |-> "data", body |-> o.value.body])

\* the completed call of operation v whose fetch settled with a
Completed(v, a) ==
  LET o == Request(a, VerbRoute(v).inlineValidation)
      f == IF v = "graphql" THEN Graphql(o) ELSE o
  IN [verb |-> v, answer |-> a, effects |-> f.effects \o <<Effect(f.out, "")>>,
      out |-> f.out, value |-> f.value, err |-> f.err]

\* An operation passes the gate and calls this.fetch; with no api.fetch that
\* call throws inside the try block.
RequestFetch(v) ==
  /\ GateOpen(ready)
  /\ BagCardinality(flying) < MaxCalls
  /\ IF fetchSet
       THEN /\ flying' = flying (+) SetToBag({v})
            /\ done' = NoDone
       ELSE /\ done' = Completed(v, FetchFailure("this.fetch is not a function"))
            /\ UNCHANGED flying
  /\ UNCHANGED <<token, ssToken, ssOriginal, ready, fetchSet, authVars, gateVars,
                 cacheVars, analyticsVars, upload, heapRun,
                 lateVars>>

\* The fetch of a call settles and the call runs to its end.
RequestSettle(v, a) ==
  /\ BagIn(v, flying)
  /\ flying' = flying (-) SetToBag({v})
  /\ done' = Completed(v, a)
  /\ UNCHANGED <<token, ssToken, ssOriginal, ready, fetchSet, authVars, gateVars,
                 cacheVars, analyticsVars, upload, heapRun,
                 lateVars>>

\* the tokens the pages of the pipeline's specification start with
PipeInits == {Absent, Jwt("user1", "")}

NextPipe ==
  \/ \E t \in PipeInits, f \in BOOLEAN : GateInit(t, f)
  \/ \E v \in FetchVerbs : RequestFetch(v)
  \/ \E v \in FetchVerbs, a \in Answers : RequestSettle(v, a)

SpecPipe == Init /\ [][NextPipe]_vars

\* the effects of the given kind, in order
Only(effects, e) == SelectSeq(effects, LAMBDA x : x.e = e)


\* the call completed by the last step got a response that request() lets
\* through: a 2xx, or a 422 answering a call made with inlineValidation
PassedThrough ==
  /\ done.answer.failure = ""
  /\ \/ IsOk(done.answer.status)
     \/ done.answer.status = 422 /\ VerbRoute(done.verb).inlineValidation

\* the body of that response can be read the way its content type announces
Decodes == IsJsonResponse(done.answer) => Parses(done.answer.body)

\* C11: a 401 response to any operation that goes through request(), made
\* with or without inlineValidation, makes the call compute the login
\* redirect once, navigate the page to it once, and fail with the 401 error;
\* the request is not issued again.
C11_UnauthorizedRedirect ==
  /\ [](done.answer.status = 401 =>
          /\ done.verb \in FetchVerbs
          /\ Only(done.effects, "loginRedirect") = <<Effect("loginRedirect", CurrentHref)>>
          /\ Only(done.effects, "navigate")
               = <<Effect("navigate", LoginRedirect(CurrentHref))>>
          /\ done.out = "throw"
          /\ done.err = HttpErrorNoBody(401)
          /\ done.value = NoValue)
  /\ [][done'.answer.status = 401
          => BagCardinality(flying') <= BagCardinality(flying)]_vars

C11_Witness ==
  /\ done.answer.status = 401
  /\ done.verb = "validatedPost"
  /\ done.out = "throw"

\* C12 as the specification states it: a 422 answering a call made without
\* inlineValidation fails the call with an error of status 422; a 422
\* answering a call made with inlineValidation, and every 2xx, is returned to
\* the caller with its body untouched and without a word to the notifier.
C12_PassThroughAlways ==
  /\ (done.answer.status = 422 /\ ~VerbRoute(done.verb).inlineValidation)
       => (done.out = "throw" /\ done.err.kind = "HttpError" /\ done.err.status = 422)
  /\ (PassedThrough /\ done.verb # "graphql")
       => /\ done.out = "return"
          /\ done.value.body = done.answer.body
          /\ Only(done.effects, "notify") = <<>>
  /\ (PassedThrough /\ done.verb = "graphql") => done.err.kind # "HttpError"

\* C12, amended: the same, provided the body can be read the way its content
\* type announces; a body announced as JSON that does not parse fails the
\* call with the parse error, which the notifier is told.
C12_PassThrough ==
  /\ (done.answer.status = 422 /\ ~VerbRoute(done.verb).inlineValidation)
       => (done.out = "throw" /\ done.err.kind = "HttpError" /\ done.err.status = 422)
  /\ (PassedThrough /\ Decodes /\ done.verb # "graphql")
       => /\ done.out = "return"
          /\ done.value.body = done.answer.body
          /\ Only(done.effects, "notify") = <<>>
  /\ (PassedThrough /\ ~Decodes)
       => /\ done.out = "throw"
          /\ done.err.kind = "SyntaxError"
          /\ Only(done.effects, "notify") = <<Effect("notify", done.err.message)>>
  /\ (PassedThrough /\ done.verb = "graphql") => done.err.kind # "HttpError"

C12_Witness ==
  /\ done.answer.status = 422
  /\ done.verb = "validatedPut"
  /\ done.out = "return"
  /\ done.value.body.message = "name is required"

\* the call completed by the last step failed inside request()
RequestFailed ==
  /\ done.out = "throw"
  /\ done.err.kind \in {"HttpError", "TypeError", "SyntaxError"}

\* C13: whenever a call fails inside request() (a 401, another non-success
\* response, the fetch rejecting), the notifier is told the message of the
\* error, once, right before the error is thrown again, and the caller gets
\* that same error.
C13_FailuresNotified ==
  /\ RequestFailed
       => /\ Len(done.effects) >= 2
          /\ done.effects[Len(done.effects)] = Effect("throw", "")
          /\ done.effects[Len(done.effects) - 1] = Effect("notify", done.err.message)
          /\ Only(done.effects, "notify") = <<Effect("notify", done.err.message)>>
  /\ done.answer.failure # ""
       => (RequestFailed /\ done.err.kind = "TypeError"
             /\ done.err.message = done.answer.failure)
  /\ (done.answer.failure = "" /\ done.verb # ""
        /\ IsRejected(done.answer, VerbRoute(done.verb).inlineValidation))
       => (RequestFailed /\ done.err.kind = "HttpError"
             /\ done.err.status = done.answer.status)

\* C25: a non-success response other than a 401 (and other than a 422 to a
\* call with inlineValidation) fails the call with an error carrying the
\* response's status and, as message, the first of these that the response
\* yields: the message of its JSON object, the message of the first element
\* of its JSON array, its plain-text body, and the HTTP status text when the
\* earlier ones yield nothing (an object without message, unparsable JSON).
C25_MessageSources ==
  (done.verb # "" /\ done.answer.failure = "" /\ done.answer.status # 401
     /\ IsRejected(done.answer, VerbRoute(done.verb).inlineValidation))
    => LET a == done.answer
           json == IsJsonResponse(a) /\ Parses(a.body)
       IN /\ done.out = "throw"
          /\ done.err.status = a.status
          /\ done.err.message
               = IF json /\ a.body.shape = "object" /\ a.body.message # ""
                   THEN a.body.message
                 ELSE IF json /\ a.body.shape = "array" /\ a.body.message # ""
                   THEN a.body.message
                 ELSE IF ~IsJsonResponse(a) /\ a.body.text # ""
                   THEN a.body.text
                 ELSE StatusText(a.status)

C13_Witness ==
  /\ done.answer.status = 500
  /\ done.answer.body.shape = "array"
  /\ IsJsonResponse(done.answer)
  /\ done.effects = <<Effect("notify", "first of many"), Effect("throw", "")>>

\* the graphql() call completed by the last step got a response that
\* request() returned
GraphqlAnswered ==
  /\ done.verb = "graphql"
  /\ PassedThrough
  /\ Decodes

\* C14: when its HTTP call succeeds and the decoded body has a non-empty
\* errors list, graphql() tells the notifier the message of the first error
\* and fails with an error carrying the whole list, returning no data; when
\* the list is absent or empty it returns the data of the body and raises
\* nothing.
C14_GraphqlErrors ==
  /\ (GraphqlAnswered /\ HasGqlErrors(JsonValue(done.answer.body))
        /\ IsJsonResponse(done.answer))
       => /\ done.out = "throw"
          /\ done.effects
               = <<Effect("notify", done.answer.body.errors[1]), Effect("throw", "")>>
          /\ done.err.kind = "Error"
          /\ done.err.message = StringifyErrors(done.answer.body.errors)
          /\ done.value = NoValue
  /\ (GraphqlAnswered /\ ~(HasGqlErrors(JsonValue(done.answer.body))
                             /\ IsJsonResponse(done.answer)))
       => /\ done.out = "return"
          /\ done.value = [as |-> "data", body |-> done.answer.body]
          /\ done.effects = <<Effect("return", "")>>
          /\ done.err = NoError

C14_Witness ==
  /\ GraphqlAnswered
  /\ done.answer.body.errors = <<"not allowed", "no such field">>
  /\ done.err.message
       = "[{\"message\":\"not allowed\"},{\"message\":\"no such field\"}]"
  /\ done.effects = <<Effect("notify", "not allowed"), Effect("throw", "")>>


(* ------------------------------------------------------------------------ *)
(* Authorization checks: mayImpersonateAny, mayImpersonate and their caches  *)
(* ------------------------------------------------------------------------ *)

\* the netids mayImpersonate is asked about; "" is mayImpersonateAny's
Targets(cache) == IF cache = "any" THEN {""} ELSE Users

\* if (isBlank(api.token)) return false
CheckNoToken(tok) == isBlank(tok)

\* variant: the check trusts whatever could not be answered
CheckOutcomeOpen(a) == IF a.failure # "" \/ ~a.parses THEN "true" ELSE a.authorized

\* what the fetcher resolves with once its fetch settled: false from the
\* catch block, false for a non-ok response, else !!authorized
CheckOutcome(a) ==
  IF a.failure # "" THEN "false"
  ELSE IF ~a.ok THEN "false"
  ELSE IF ~a.parses THEN "false"
  ELSE IF a.authorized = "true" THEN "true"
  ELSE "false"

\* the cache holds an outcome for key k
IsKept(k) == \E e \in kept : e.key = k

KeptValue(k) == (CHOOSE e \in kept : e.key = k).value

Keep(k, value) == {e \in kept : e.key # k} \cup {[key |-> k, value |-> value]}

\* variant: every caller starts its own check
CoalescesNever(k, inFlight) == FALSE

\* a check for key k is in flight: a caller shares it instead of starting one
Coalesces(k, inFlight) == BagIn(k, inFlight)

\* mayImpersonateAny(api) or mayImpersonate(api, netid) is called: Cache.get
\* answers from the kept outcome, or joins the check in flight for the key, or
\* runs the fetcher, which answers false at once without a token and else
\* issues the fetch of /mayImpersonate.
MayImpersonateCall(cache, netid) ==
  LET k == CacheKey(cache, token, netid)
  IN /\ BagCardinality(waiting) < MaxWaiting
     /\ IF IsKept(k)
          THEN /\ authLog' = AuthLog("hit", k, KeptValue(k), 0, 1, NoAuthAnswer)
               /\ UNCHANGED <<active, kept, waiting>>
        ELSE IF Coalesces(k, active)
          THEN /\ waiting' = waiting (+) SetToBag({k})
               /\ authLog' = AuthLog("join", k, "", 0, 0, NoAuthAnswer)
               /\ UNCHANGED <<active, kept>>
        ELSE IF CheckNoToken(k.token)
          THEN /\ kept' = Keep(k, "false")
               /\ authLog' = AuthLog("answer", k, "false", 0, 1, NoAuthAnswer)
               /\ UNCHANGED <<active, waiting>>
        ELSE /\ active' = active (+) SetToBag({k})
             /\ waiting' = waiting (+) SetToBag({k})
             /\ authLog' = AuthLog("fetch", k, "", 1, 0, NoAuthAnswer)
             /\ UNCHANGED kept
     /\ UNCHANGED <<token, ssToken, ssOriginal, ready, fetchSet, authVars, gateVars,
                    pipeVars, analyticsVars, upload, heapRun,
                 lateVars>>

\* The fetch of the check in flight for key k settles: the fetcher resolves,
\* the cache keeps the outcome and every caller waiting on k gets it.
MayImpersonateSettle(k, a) ==
  /\ BagIn(k, active)
  /\ active' = active (-) SetToBag({k})
  /\ kept' = Keep(k, CheckOutcome(a))
  /\ waiting' = [x \in DOMAIN waiting \ {k} |-> waiting[x]]
  /\ authLog' = AuthLog("settle", k, CheckOutcome(a), 0, CopiesIn(k, waiting), a)
  /\ UNCHANGED <<token, ssToken, ssOriginal, ready, fetchSet, authVars, gateVars,
                 pipeVars, analyticsVars, upload, heapRun,
                 lateVars>>

\* The cache drops the outcome it kept for key k once it is too old.
CacheExpire(k) ==
  /\ IsKept(k)
  /\ kept' = {e \in kept : e.key # k}
  /\ authLog' = AuthLog("expire", k, "", 0, 0, NoAuthAnswer)
  /\ UNCHANGED <<active, waiting>>
  /\ UNCHANGED <<token, ssToken, ssOriginal, ready, fetchSet, authVars, gateVars,
                 pipeVars, analyticsVars, upload, heapRun,
                 lateVars>>

\* the tokens the pages of this specification start with
CacheInits == {Absent, Jwt("admin1", "")}

Caches == {"any", "netid"}

CacheKeys == {CacheKey(c, t, n) : c \in Caches, t \in CacheInits, n \in Users \cup {""}}

NextCache ==
  \/ \E t \in CacheInits : GateInit(t, TRUE)
  \/ \E c \in Caches : \E n \in Targets(c) : MayImpersonateCall(c, n)
  \/ \E k \in CacheKeys, a \in AuthAnswers : MayImpersonateSettle(k, a)
  \/ \E k \in CacheKeys : CacheExpire(k)

SpecCache == Init /\ [][NextCache]_vars

\* C15: for every key there is at most one check in flight, whoever calls
\* while it is in flight starts no request of their own, and when it settles
\* all the callers waiting on the key get its outcome; two concurrent calls
\* for one key make one network request.
C15_ChecksCoalesce ==
  /\ [](\A k \in BagToSet(active) : CopiesIn(k, active) = 1)
  /\ [](\A k \in BagToSet(waiting) : BagIn(k, active))
  /\ [][/\ (authLog'.op = "join" /\ authLog' # authLog)
             => (active' = active /\ authLog'.requests = 0
                   /\ BagIn(authLog'.key, active))
        /\ \A k \in BagToSet(active) :
             (CopiesIn(k, active') < CopiesIn(k, active))
               => /\ ~BagIn(k, waiting')
                  /\ authLog'.op = "settle"
                  /\ authLog'.key = k
                  /\ authLog'.delivered = CopiesIn(k, waiting)
                  /\ IsKept(k)' /\ KeptValue(k)' = authLog'.result]_vars

C15_Witness ==
  \E k \in BagToSet(waiting) :
    /\ k.cache = "netid"
    /\ CopiesIn(k, waiting) = 2
    /\ CopiesIn(k, active) = 1
    /\ authLog.op = "join"

\* C16: the checks never raise and fail closed.  An outcome is true only
\* for a key with a token whose request the service answered with success
\* and authorized true; without a token the outcome is false and no request
\* is made; a rejected fetch, a non-success status and an unreadable body
\* all give false.
C16_ChecksFailClosed ==
  /\ authLog.result \in {"", "true", "false"}
  /\ \A k \in BagToSet(active) : ~isBlank(k.token)
  /\ \A e \in kept : e.value = "true" => ~isBlank(e.key.token)
  /\ authLog.op = "answer"
       => (isBlank(authLog.key.token) /\ authLog.result = "false"
             /\ authLog.requests = 0)
  /\ (authLog.op = "fetch") => ~isBlank(authLog.key.token)
  /\ authLog.op = "settle"
       => /\ authLog.result \in {"true", "false"}
          /\ authLog.result = "true"
               <=> (/\ authLog.answer.failure = ""
                    /\ authLog.answer.ok
                    /\ authLog.answer.parses
                    /\ authLog.answer.authorized = "true"
                    /\ ~isBlank(authLog.key.token))

C16_Witness ==
  /\ authLog.op = "settle"
  /\ authLog.answer.failure # ""
  /\ authLog.result = "false"
  /\ authLog.key.cache = "any"


(* ------------------------------------------------------------------------ *)
(* Analytics: APIBase.recordInteraction                                     *)
(* ------------------------------------------------------------------------ *)

\* the delay of the setTimeout of recordInteraction, in milliseconds
FlushDelay == 2000

\* the step of the clock, in milliseconds
TickMs == FlushDelay \div 10

\* An event in the queue: the number it was recorded as, the time since then
\* and how many POSTs had been issued when it was recorded.
QueuedEvent(id, age, era) == [id |-> id, age |-> age, era |-> era]

\* an event in the body of a POST
SentEvent(e) == [id |-> e.id, era |-> e.era]

\* variant: the callback leaves the queue as it is
QueueAfterFlushKept(q) == q

\* this.analyticsQueue.length = 0
QueueAfterFlush(q) == <<>>

\* variant: the callback posts whatever it copied
ShouldPostAlways(events) == TRUE

\* if (events.length)
ShouldPost(events) == Len(events) > 0

\* variant: recording cancels the callbacks scheduled before
TimersDebounced(ts) == <<FlushDelay>>

\* setTimeout(..., 2000): one more callback, the earlier ones stay
TimersAfterRecord(ts) == Append(ts, FlushDelay)

\* the longest a burst lasts, in milliseconds
BurstMs == TickMs

\* the POST /analytics a callback issues with the events it copied; burst
\* tells that they were all recorded within BurstMs, though not at once
AnalyticsPost(events) ==
  [body |-> [i \in 1..Len(events) |-> SentEvent(events[i])],
   burst |-> /\ events # <<>>
             /\ events[1].age - events[Len(events)].age \in 1..BurstMs]

\* recordInteraction(evt): push the event, schedule a callback
RecordInteraction ==
  /\ recorded < MaxEvents
  /\ recorded' = recorded + 1
  /\ analyticsQueue' = Append(analyticsQueue, QueuedEvent(recorded + 1, 0, Len(posts)))
  /\ timers' = TimersAfterRecord(timers)
  /\ UNCHANGED <<posts, unsettled>>
  /\ UNCHANGED <<token, ssToken, ssOriginal, ready, fetchSet, authVars, gateVars,
                 pipeVars, cacheVars, upload, heapRun,
                 lateVars>>

\* Time passes, as long as no scheduled callback is due.
Tick ==
  /\ timers # <<>>
  /\ \A i \in 1..Len(timers) : timers[i] >= TickMs
  /\ timers' = [i \in 1..Len(timers) |-> timers[i] - TickMs]
  /\ analyticsQueue' = [i \in 1..Len(analyticsQueue) |->
                          [analyticsQueue[i] EXCEPT !.age = @ + TickMs]]
  /\ UNCHANGED <<posts, unsettled, recorded>>
  /\ UNCHANGED <<token, ssToken, ssOriginal, ready, fetchSet, authVars, gateVars,
                 pipeVars, cacheVars, upload, heapRun,
                 lateVars>>

\* The callback scheduled first is due and runs: it copies the queue, empties
\* it and posts the copy when there is anything in it.
TimerFires ==
  /\ timers # <<>>
  /\ Head(timers) = 0
  /\ timers' = Tail(timers)
  /\ analyticsQueue' = QueueAfterFlush(analyticsQueue)
  /\ IF ShouldPost(analyticsQueue)
       THEN /\ posts' = Append(posts, AnalyticsPost(analyticsQueue))
            /\ unsettled' = unsettled + 1
       ELSE UNCHANGED <<posts, unsettled>>
  /\ UNCHANGED recorded
  /\ UNCHANGED <<token, ssToken, ssOriginal, ready, fetchSet, authVars, gateVars,
                 pipeVars, cacheVars, upload, heapRun,
                 lateVars>>

\* The POST of one of the batches settles; a failure is logged to the console.
PostSettles ==
  /\ unsettled > 0
  /\ unsettled' = unsettled - 1
  /\ UNCHANGED <<analyticsQueue, timers, posts, recorded>>
  /\ UNCHANGED <<token, ssToken, ssOriginal, ready, fetchSet, authVars, gateVars,
                 pipeVars, cacheVars, upload, heapRun,
                 lateVars>>

NextAnalytics ==
  \/ RecordInteraction
  \/ Tick
  \/ TimerFires
  \/ PostSettles

SpecAnalytics == Init /\ [][NextAnalytics]_vars

\* The event loop runs a due callback, and time does not stand still.
SpecAnalyticsFair ==
  Init /\ [][NextAnalytics]_vars /\ WF_vars(Tick) /\ WF_vars(TimerFires)

\* the numbers of the events in the bodies of the POSTs issued, in order
RECURSIVE SentIds(_)
SentIds(n) ==
  IF n = 0 THEN <<>>
  ELSE SentIds(n - 1) \o [j \in 1..Len(posts[n].body) |-> posts[n].body[j].id]

QueuedIds == [i \in 1..Len(analyticsQueue) |-> analyticsQueue[i].id]

\* C17: at every moment the events recorded so far are, in the order of their
\* recording, the bodies of the POSTs issued followed by the queue, so every
\* event is in one batch only and none is lost; an issued batch never
\* changes, so an event recorded while a POST is in flight goes into a later
\* batch.
C17_ExactlyOnce ==
  /\ [](SentIds(Len(posts)) \o QueuedIds = [i \in 1..recorded |-> i])
  /\ [][/\ Len(posts') >= Len(posts)
        /\ \A i \in 1..Len(posts) : posts'[i].body = posts[i].body]_vars

C17_Witness ==
  /\ Len(posts) = 2
  /\ unsettled = 2
  /\ Len(posts[1].body) = 2
  /\ \E j \in 1..Len(posts[2].body) : posts[2].body[j].era = 1

\* C18: the events recorded with no POST issued between them all go out in
\* one POST, in the order of their recording, and no POST is issued with an
\* empty body: however many callbacks a burst scheduled, it makes one call.
C18_BurstOnePost ==
  /\ \A i \in 1..Len(posts) :
       /\ posts[i].body # <<>>
       /\ \A j \in 1..Len(posts[i].body) : posts[i].body[j].era = i - 1
       /\ \A j \in 1..(Len(posts[i].body) - 1) :
            posts[i].body[j].id < posts[i].body[j + 1].id
  /\ \A i \in 1..Len(analyticsQueue) : analyticsQueue[i].era = Len(posts)
  /\ Len(posts) <= recorded

\* five events recorded within 200 ms, all five callbacks run, one POST
C18_Witness ==
  /\ Len(posts) = 1
  /\ Len(posts[1].body) = 5
  /\ posts[1].burst
  /\ timers = <<>>
  /\ analyticsQueue = <<>>

\* C19: no event waits in the queue for more than the 2000 ms of the delay,
\* whatever is recorded after it; recording leaves the callbacks already
\* scheduled as they are; and every recorded event ends up in a POST: again
\* and again all the events recorded so far have been posted.
C19_DeliveryCeiling ==
  /\ [](\A i \in 1..Len(analyticsQueue) : analyticsQueue[i].age <= FlushDelay)
  /\ [][recorded' > recorded
          => SubSeq(timers', 1, Len(timers)) = timers]_vars
  /\ []<>(SentIds(Len(posts)) = [i \in 1..recorded |-> i])

\* recording went on for the whole delay and past it: the first event has
\* been posted while later ones are still being recorded
\* C26: recording an event more than 2000 ms after the last flush flushes
\* the queue in that same step; recording it earlier cancels the flush that
\* is scheduled and schedules a single one for the rest of the window.  So
\* at most one flush is scheduled at any time, and one is scheduled exactly
\* while events are waiting in the queue.
C26_SingleScheduledFlush ==
  /\ Len(timers) <= 1
  /\ (analyticsQueue # <<>>) <=> (Len(timers) = 1)

C19_Witness ==
  /\ Len(posts) >= 1
  /\ posts[1].body[1].id = 1
  /\ analyticsQueue # <<>>
  /\ Len(timers) >= 2
  /\ analyticsQueue[Len(analyticsQueue)].age = 0


(* ------------------------------------------------------------------------ *)
(* Uploads: replaceFiles and APIBase.graphqlWithUploads                     *)
(* ------------------------------------------------------------------------ *)

FileNames == {"a.png", "b.pdf"}

Leaves == {Node("file", n, 0, <<>>) : n \in FileNames} \cup {Node("scalar", "", 0, <<>>)}

\* the sequences of values with n values in all, nested ones included
RECURSIVE Forest(_)
Forest(n) ==
  IF n = 0 THEN {<<>>}
  ELSE UNION {
         {<<v>> \o rest :
            v \in IF k = 1
                    THEN Leaves \cup {Node(t, "", 0, <<>>) : t \in {"obj", "arr"}}
                    ELSE {Node(t, "", 0, kids) : t \in {"obj", "arr"}, kids \in Forest(k - 1)},
            rest \in Forest(n - k)}
         : k \in 1..n}

\* the variables a call may be given: a mapping, of at most max values
Variables(max) == {Node("obj", "", 0, kids) : kids \in UNION {Forest(n) : n \in 0..max}}

\* variant: the index is taken after the push without the - 1
MultipartIndexFromOne(files) == Len(files)

\* multipartIndex: files.length - 1, files holding the file just pushed
MultipartIndex(files) == Len(files) - 1

\* { __type: 'APIUploadInfo', multipartIndex, name, mime, size }
UploadInfo(file, files) == Node("info", file.name, MultipartIndex(files), <<>>)

\* newVariables ??= { ...variables }: a plain object with the same keys,
\* whatever variables was
Spread(variables) == Node("obj", variables.name, variables.index, variables.kids)

\* replaceFiles(variables, files): value is what it returns, changed tells
\* that this is a copy and not variables itself, files is the list after the
\* pushes.  ReplaceKeys is the for..in loop from key i on, copy being
\* newVariables when made.
RECURSIVE replaceFiles(_, _)
RECURSIVE ReplaceKeys(_, _, _, _, _)
ReplaceKeys(variables, i, made, copy, files) ==
  IF i > Len(variables.kids)
    THEN [value |-> IF made THEN copy ELSE variables, changed |-> made, files |-> files]
  ELSE LET val == variables.kids[i]
           base == IF made THEN copy ELSE Spread(variables)
       IN IF val.t = "file"
            THEN LET pushed == Append(files, val)
                 IN ReplaceKeys(variables, i + 1, TRUE,
                                [base EXCEPT !.kids[i] = UploadInfo(val, pushed)], pushed)
          ELSE IF val.t \in {"obj", "arr", "info"}
            THEN LET r == replaceFiles(val, files)
                 IN IF r.changed
                      THEN ReplaceKeys(variables, i + 1, TRUE,
                                       [base EXCEPT !.kids[i] = r.value], r.files)
                      ELSE ReplaceKeys(variables, i + 1, made, copy, r.files)
          ELSE ReplaceKeys(variables, i + 1, made, copy, files)

replaceFiles(variables, files) == ReplaceKeys(variables, 1, FALSE, variables, files)

\* The same pass over objects in memory.  A heap is the sequence of the
\* objects allocated so far, a reference is a position in it, and the kids of
\* an object are references.  Store allocates the value v, nested values
\* first; its reference is the last position of the heap returned.
RECURSIVE Store(_, _)
RECURSIVE StoreKids(_, _, _, _)
StoreKids(heap, kids, i, refs) ==
  IF i > Len(kids) THEN [heap |-> heap, refs |-> refs]
  ELSE LET h == Store(heap, kids[i])
       IN StoreKids(h, kids, i + 1, Append(refs, Len(h)))

Store(heap, v) ==
  LET s == StoreKids(heap, v.kids, 1, <<>>)
  IN Append(s.heap, Node(v.t, v.name, v.index, s.refs))

\* the value held at reference a
RECURSIVE Unload(_, _)
Unload(heap, a) ==
  Node(heap[a].t, heap[a].name, heap[a].index,
       [i \in 1..Len(heap[a].kids) |-> Unload(heap, heap[a].kids[i])])

\* variant: newVariables is variables itself, written in place
SpreadInPlace(heap, a) == [heap |-> heap, ref |-> a]

\* newVariables ??= { ...variables }: a new object holding the references
\* variables holds
SpreadAt(heap, a) == [heap |-> Append(heap, Spread(heap[a])), ref |-> Len(heap) + 1]

\* replaceFiles(variables, files) with variables the object at a: ref is what
\* it returns, files the references pushed.  ReplaceKeysAt is the for..in
\* loop from key i on, nv being newVariables, 0 while undefined.
RECURSIVE replaceFilesAt(_, _, _)
RECURSIVE ReplaceKeysAt(_, _, _, _, _)
ReplaceKeysAt(heap, a, i, nv, files) ==
  IF i > Len(heap[a].kids)
    THEN [heap |-> heap, ref |-> IF nv = 0 THEN a ELSE nv, files |-> files]
  ELSE LET val == heap[a].kids[i]
       IN IF heap[val].t = "file"
            THEN LET pushed == Append(files, val)
                     s == IF nv = 0 THEN SpreadAt(heap, a) ELSE [heap |-> heap, ref |-> nv]
                     h == Append(s.heap, UploadInfo(heap[val], pushed))
                 IN ReplaceKeysAt([h EXCEPT ![s.ref].kids[i] = Len(h)], a, i + 1,
                                  s.ref, pushed)
          ELSE IF heap[val].t \in {"obj", "arr", "info"}
            THEN LET r == replaceFilesAt(heap, val, files)
                     s == IF nv = 0 THEN SpreadAt(r.heap, a)
                                    ELSE [heap |-> r.heap, ref |-> nv]
                 IN IF r.ref # val
                      THEN ReplaceKeysAt([s.heap EXCEPT ![s.ref].kids[i] = r.ref], a,
                                         i + 1, s.ref, r.files)
                      ELSE ReplaceKeysAt(r.heap, a, i + 1, nv, r.files)
          ELSE ReplaceKeysAt(heap, a, i + 1, nv, files)

replaceFilesAt(heap, a, files) == ReplaceKeysAt(heap, a, 1, 0, files)

\* replaceFiles(variables, files) called on the value input with files empty
HeapRun(input) ==
  LET before == Store(<<>>, input)
      r == replaceFilesAt(before, Len(before), <<>>)
  IN [before |-> before, root |-> Len(before), heap |-> r.heap, ref |-> r.ref,
      files |-> r.files]

\* form.set(`file${i}`, files[i]) for every i
FileParts(files) ==
  [i \in 1..Len(files) |-> [name |-> "file" \o ToString(i - 1), file |-> files[i]]]

\* graphqlWithUploads was called with these variables and this omitUploads
Called(input, omitUploads) ==
  UploadCall("called", input, omitUploads, Node("", "", 0, <<>>), <<>>, <<>>)

\* graphqlWithUploads runs up to the call that sends: graphql() with the
\* placeholders and no file, or uploadWithProgress() with the form
GraphqlWithUploads ==
  /\ upload.mode = "called"
  /\ LET r == replaceFiles(upload.input, <<>>)
     IN upload' =
          IF upload.omitUploads \/ Len(r.files) = 0
            THEN UploadCall("json", upload.input, upload.omitUploads, r.value, r.files, <<>>)
            ELSE UploadCall("multipart", upload.input, upload.omitUploads, r.value,
                            r.files, FileParts(r.files))
  /\ heapRun' = HeapRun(upload.input)
  /\ UNCHANGED <<token, ssToken, ssOriginal, ready, fetchSet, authVars, gateVars,
                 pipeVars, cacheVars, analyticsVars, lateVars>>

\* a freshly constructed APIBase on a page that has just called
\* graphqlWithUploads, nothing being stored
InitUpload ==
  /\ Constructed
  /\ ssToken = Absent
  /\ upload \in {Called(v, o) : v \in Variables(MaxNodes), o \in BOOLEAN}
  /\ heapRun = NoHeapRun
  /\ impStatus = NoStatus
  /\ queryRun = NoQueryRun
  /\ xhrRun = NoXhrRun

NextUpload == GraphqlWithUploads

SpecUpload == InitUpload /\ [][NextUpload]_vars

\* the files, scalars and placeholders of a value, in the order a depth-first
\* walk over the keys meets them
RECURSIVE Walk(_)
RECURSIVE WalkKids(_, _)
WalkKids(kids, i) ==
  IF i > Len(kids) THEN <<>> ELSE Walk(kids[i]) \o WalkKids(kids, i + 1)

Walk(v) == IF v.t \in {"obj", "arr"} THEN WalkKids(v.kids, 1) ELSE <<v>>

Placeholders(v) == SelectSeq(Walk(v), LAMBDA x : x.t = "info")

\* the call of the last step has run
Encoded == upload.mode \in {"json", "multipart"}

\* C20: after an encoding pass that found N files, the placeholders met in
\* tree-traversal order carry the indices 0 .. N-1 in that order, the
\* placeholder with index i sits where the file outFiles[i] was, and
\* graphqlWithUploads sends that file as the part named file<i> of the
\* multipart body, which it builds unless uploads are omitted or N is 0.
C20_DenseIndices ==
  Encoded =>
    LET infos == Placeholders(upload.variables)
        before == Walk(upload.input)
        after == Walk(upload.variables)
        N == Len(upload.files)
    IN /\ Len(infos) = N
       /\ \A i \in 1..N : infos[i].index = i - 1
       /\ upload.files = SelectSeq(before, LAMBDA x : x.t = "file")
       /\ Len(after) = Len(before)
       /\ \A j \in 1..Len(before) :
            IF before[j].t = "file"
              THEN /\ after[j].t = "info"
                   /\ after[j].index \in 0..(N - 1)
                   /\ upload.files[after[j].index + 1] = before[j]
                   /\ after[j].name = before[j].name
              ELSE after[j] = before[j]
       /\ (upload.mode = "multipart") <=> (~upload.omitUploads /\ N > 0)
       /\ upload.mode = "multipart"
            => /\ Len(upload.parts) = N
               /\ \A i \in 0..(N - 1) :
                    upload.parts[i + 1]
                      = [name |-> "file" \o ToString(i), file |-> upload.files[i + 1]]

\* the object at x holds a file, directly or beneath
RECURSIVE HasFile(_, _)
HasFile(heap, x) ==
  \/ heap[x].t = "file"
  \/ \E i \in 1..Len(heap[x].kids) : HasFile(heap, heap[x].kids[i])

IsContainer(cell) == cell.t \in {"obj", "arr"}

\* y is what an encoding pass over x may return when it shares structure:
\* x itself where x holds no file, else an object allocated by the pass
\* (after position n) with x's keys, each going to what the pass may return
\* for x's value there -- a placeholder allocated by the pass for a file
RECURSIVE Shares(_, _, _, _)
Shares(heap, x, y, n) ==
  IF heap[x].t = "file"
    THEN y > n /\ heap[y].t = "info"
  ELSE IF IsContainer(heap[x]) /\ HasFile(heap, x)
    THEN /\ y > n
         /\ IsContainer(heap[y])
         /\ Len(heap[y].kids) = Len(heap[x].kids)
         /\ \A i \in 1..Len(heap[x].kids) :
              Shares(heap, heap[x].kids[i], heap[y].kids[i], n)
  ELSE y = x

\* C21: replaceFiles changes no object of the tree it is given (only the
\* file list grows); it returns the very object it was given when the tree
\* holds no file, and otherwise a tree that holds, at every place where the
\* input has a value without a file in it, that same object; the objects it
\* allocates are one container per input container with a file beneath and
\* one placeholder per file.
C21_StructuralSharing ==
  Encoded =>
    LET n == Len(heapRun.before)
        h == heapRun.heap
        made == {a \in (n + 1)..Len(h) : IsContainer(h[a])}
        holders == {a \in 1..n : IsContainer(h[a]) /\ HasFile(h, a)}
    IN /\ heapRun.before = Store(<<>>, upload.input)
       /\ heapRun.root = n
       /\ Len(h) >= n
       /\ SubSeq(h, 1, n) = heapRun.before
       /\ Unload(h, heapRun.root) = upload.input
       /\ (heapRun.ref = heapRun.root) <=> ~HasFile(h, heapRun.root)
       /\ Shares(h, heapRun.root, heapRun.ref, n)
       /\ Cardinality(made) = Cardinality(holders)
       /\ Len(h) - n = Cardinality(made) + Len(heapRun.files)
       /\ Unload(h, heapRun.ref) = upload.variables
       /\ [i \in 1..Len(heapRun.files) |-> Unload(h, heapRun.files[i])] = upload.files

\* { a: { b: 1 }, c: [file] }: the result is a new object whose a is the
\* input's a and whose c is a new container, the input still holding the file
C21_Witness ==
  /\ Encoded
  /\ upload.input
       = Node("obj", "", 0,
              <<Node("obj", "", 0, <<Node("scalar", "", 0, <<>>)>>),
                Node("arr", "", 0, <<Node("file", "a.png", 0, <<>>)>>)>>)
  /\ heapRun.ref > heapRun.root
  /\ Len(heapRun.heap[heapRun.ref].kids) = 2
  /\ heapRun.heap[heapRun.ref].kids[1] = heapRun.heap[heapRun.root].kids[1]
  /\ heapRun.heap[heapRun.ref].kids[2] > heapRun.root
  /\ heapRun.heap[heapRun.heap[heapRun.root].kids[2]].kids = heapRun.files

\* after is before with every file replaced by a placeholder carrying its
\* name and nothing else changed: the same kind of container with the same
\* keys in the same order at every place, the same other leaves
RECURSIVE SameShape(_, _)
SameShape(before, after) ==
  IF before.t = "file"
    THEN after.t = "info" /\ after.name = before.name
  ELSE IF IsContainer(before)
    THEN /\ after.t = before.t
         /\ Len(after.kids) = Len(before.kids)
         /\ \A i \in 1..Len(before.kids) : SameShape(before.kids[i], after.kids[i])
  ELSE after = before

\* C28: the variables replaceFiles returns have the shape of the variables it
\* was given -- a mapping stays a mapping, an array stays an array of the same
\* length and order, the leaves that are no file stay what they were -- and
\* differ only in the files, which are placeholders.
C28_ShapePreserved == Encoded => SameShape(upload.input, upload.variables)

C20_Witness ==
  /\ upload.mode = "multipart"
  /\ upload.input
       = Node("obj", "", 0,
              <<Node("file", "b.pdf", 0, <<>>),
                Node("arr", "", 0, <<Node("file", "a.png", 0, <<>>),
                                     Node("file", "b.pdf", 0, <<>>)>>)>>)
  /\ Placeholders(upload.variables)
       = <<Node("info", "b.pdf", 0, <<>>), Node("info", "a.png", 1, <<>>),
           Node("info", "b.pdf", 2, <<>>)>>
  /\ Len(upload.parts) = 3
  /\ upload.parts[2] = [name |-> "file1", file |-> Node("file", "a.png", 0, <<>>)]


(* ------------------------------------------------------------------------ *)
(* unifiedAuth.getImpersonationStatus                                       *)
(* ------------------------------------------------------------------------ *)

\* a non-blank string that is no JWT: decodeJwt throws on it
Malformed == [kind |-> "malformed", sub |-> "", act |-> ""]

\* { isImpersonating: false }
NotImpersonating ==
  [asked |-> TRUE, isImpersonating |-> FALSE, impersonatedUser |-> "", impersonatedBy |-> ""]

\* { isImpersonating: true, impersonatedUser, impersonatedBy }
Impersonating(user, by) ==
  [asked |-> TRUE, isImpersonating |-> TRUE, impersonatedUser |-> user, impersonatedBy |-> by]

\* decodeJwt(tok) returns the claims and does not throw
DecodesJwt(tok) == tok.kind = "jwt"

\* variant: the two subjects change places
ImpersonationStatusSwapped(tok) ==
  IF isBlank(tok) THEN NotImpersonating
  ELSE IF DecodesJwt(tok) /\ tok.act # "" THEN Impersonating(tok.act, tok.sub)
  ELSE NotImpersonating

\* what getImpersonationStatus returns with api.token = tok: a blank token
\* returns early, a throw of decodeJwt is caught, a payload whose act.sub is
\* missing falls through to the last return
ImpersonationStatus(tok) ==
  IF isBlank(tok) THEN NotImpersonating
  ELSE IF DecodesJwt(tok) /\ tok.act # "" THEN Impersonating(tok.sub, tok.act)
  ELSE NotImpersonating

GetImpersonationStatus ==
  /\ impStatus' = ImpersonationStatus(token)
  /\ UNCHANGED <<token, ssToken, ssOriginal, ready, fetchSet, authVars, gateVars,
                 pipeVars, cacheVars, analyticsVars, upload, heapRun, queryRun, xhrRun>>

\* the tokens the page is opened with
StatusInits == {Absent, Blank, Malformed, Jwt("admin1", ""), Jwt("user1", "admin1")}

NextStatus ==
  \/ \E t \in StatusInits : APIInit(t)
  \/ Impersonate("user1")
  \/ \E i \in 1..MaxInFlight : ImpersonateResume(i)
  \/ ExitImpersonation
  \/ GetImpersonationStatus

SpecStatus == Init /\ [][NextStatus]_vars

\* C22: getImpersonationStatus answers from the claims of the current token
\* alone, whatever originalToken holds: impersonating, with the token's sub as
\* the impersonated user and its act.sub as the impersonator, when the token
\* decodes and carries act.sub; not impersonating for every other token,
\* absent, blank and undecodable ones included, without throwing.
C22_StatusFromToken ==
  [][impStatus' # impStatus
       => /\ impStatus'.asked
          /\ IF token.kind = "jwt" /\ token.act \in Users
               THEN /\ impStatus'.isImpersonating
                    /\ impStatus'.impersonatedUser = token.sub
                    /\ impStatus'.impersonatedBy = token.act
               ELSE ~impStatus'.isImpersonating]_vars

\* asked while originalToken is set and the current token is still the
\* principal's own: not impersonating
C22_Witness ==
  /\ impStatus = NotImpersonating
  /\ ssOriginal = Jwt("admin1", "")
  /\ token = Jwt("admin1", "")


(* ------------------------------------------------------------------------ *)
(* APIBase.init and the session-storage slot it shares                      *)
(* ------------------------------------------------------------------------ *)

\* Another APIBase of the page is given the token t by its init(): the slot
\* 'token' of sessionStorage is the same for every instance.
OtherInit(t) ==
  /\ Truthy(t)
  /\ ssToken' = t
  /\ Record(Op("otherInit", "ok", NoErr, NoAnswer), 0)
  /\ UNCHANGED <<token, ssOriginal, ready, fetchSet, calls, nav, gateVars, restVars>>

\* unifiedAuth.logout() is called with another APIBase of the page that
\* holds a token: both slots are removed.
OtherLogout ==
  /\ ssToken' = Absent
  /\ ssOriginal' = Absent
  /\ Record(Op("otherLogout", "ok", NoErr, NoAnswer), 0)
  /\ UNCHANGED <<token, ready, fetchSet, calls, nav, gateVars, restVars>>

NextInit ==
  \/ \E t \in InitInputs : APIInit(t)
  \/ \E t \in InitInputs : OtherInit(t)
  \/ OtherLogout
  \/ Logout

SpecInit == Init /\ [][NextInit]_vars

\* C24: init(t) with a token supplied makes it the current token and writes
\* it to the token slot of session storage; with none supplied it leaves the
\* slot alone and loads the current token from it only when none is held in
\* memory, a held one staying as it is; either way originalToken is not
\* touched.
C24_InitToken ==
  [][\A t \in InitInputs :
       APIInit(t)
         => /\ ssOriginal' = ssOriginal
            /\ IF t.kind # "absent"
                 THEN token' = t /\ ssToken' = t
                 ELSE /\ ssToken' = ssToken
                      /\ token' = IF token.kind = "absent" THEN ssToken ELSE token]_vars

\* init() without a token has just run while the slot held another token
\* than the one in memory, which is still there
C24_Witness ==
  /\ lastOp.op = "init"
  /\ token = Jwt("admin1", "")
  /\ ssToken = Jwt("user1", "")


(* ------------------------------------------------------------------------ *)
(* APIBase.stringifyQuery                                                   *)
(* ------------------------------------------------------------------------ *)

\* the most keys a structured query has
MaxKeys == 2

\* Strings are sequences of characters here, so that a first character can be
\* looked at and an encoding is not the identity.
\* A value under a key of a structured query: undefined, a string, a number,
\* an array of strings and numbers
Val(t, s, n, items) == [t |-> t, s |-> s, n |-> n, items |-> items]

Scalars ==
  {Val("string", <<"a">>, 0, <<>>), Val("string", <<"b", " ", "c", "&">>, 0, <<>>),
   Val("number", <<>>, 10, <<>>)}

QueryValues ==
  {Val("undefined", <<>>, 0, <<>>)} \cup Scalars
    \cup {Val("array", <<>>, 0, items) :
            items \in {<<>>} \cup {<<x>> : x \in Scalars}
                            \cup {xy \in Scalars \X Scalars : xy[1] # xy[2]}}

QueryKeys == {<<"i", "d">>, <<"q">>, <<"a", "=">>}

\* the entries of the structured queries, in the order Object.entries gives
RECURSIVE Entries(_)
Entries(n) ==
  IF n = 0 THEN {<<>>}
  ELSE {Append(es, [key |-> k, val |-> v]) :
          es \in {e \in Entries(n - 1) : Len(e) = n - 1},
          k \in QueryKeys, v \in QueryValues}
       \cup Entries(n - 1)

DistinctKeys(es) == \A i, j \in 1..Len(es) : es[i].key = es[j].key => i = j

\* APIBaseQueryPayload | undefined
QueryPayload(t, s, entries) == [t |-> t, s |-> s, entries |-> entries]

\* the queries stringifyQuery is called with, of at most max keys
Queries(max) ==
  {QueryPayload("undefined", <<>>, <<>>)}
    \cup {QueryPayload("string", str, <<>>) :
            str \in {<<>>, <<"?">>, <<"q", "=", "1">>, <<"?", "q", "=", "1">>,
                     <<"q", "?">>, <<"a", " ", "b">>}}
    \cup {QueryPayload("object", <<>>, es) :
            es \in {e \in Entries(max) : DistinctKeys(e)}}

\* String(v) for a string or a number
RECURSIVE StringOf(_)
StringOf(v) ==
  IF v.t = "string" THEN v.s
  ELSE IF v.n < 10 THEN <<(<<"0", "1", "2", "3", "4", "5", "6", "7", "8", "9">>)[v.n + 1]>>
  ELSE StringOf([v EXCEPT !.n = v.n \div 10]) \o StringOf([v EXCEPT !.n = v.n % 10])

\* variant: an array counts as one value, its first
toArrayFirst(val) ==
  IF val.t = "array" THEN (IF val.items = <<>> THEN <<>> ELSE <<Head(val.items)>>)
  ELSE IF val.t = "undefined" THEN <<>>
  ELSE <<val>>

\* toArray(val): an array as it is, nothing for undefined, else the one value
toArray(val) ==
  IF val.t = "array" THEN val.items
  ELSE IF val.t = "undefined" THEN <<>>
  ELSE <<val>>

\* how URLSearchParams.toString() writes the characters it does not leave as
\* they are
Escapes ==
  [c \in {" ", "&", "=", "?", "+", "%"} |->
     CASE c = " " -> <<"+">>
       [] c = "&" -> <<"%", "2", "6">>
       [] c = "=" -> <<"%", "3", "D">>
       [] c = "?" -> <<"%", "3", "F">>
       [] c = "+" -> <<"%", "2", "B">>
       [] c = "%" -> <<"%", "2", "5">>]

RECURSIVE Escaped(_)
Escaped(str) ==
  IF str = <<>> THEN <<>>
  ELSE (IF Head(str) \in DOMAIN Escapes THEN Escapes[Head(str)] ELSE <<Head(str)>>)
         \o Escaped(Tail(str))

\* p.toString() for the pairs appended to p, in the order of the appends
RECURSIVE ParamsToString(_)
ParamsToString(pairs) ==
  IF pairs = <<>> THEN <<>>
  ELSE Escaped(pairs[1].name) \o <<"=">> \o Escaped(pairs[1].value)
         \o (IF Len(pairs) > 1 THEN <<"&">> ELSE <<>>) \o ParamsToString(Tail(pairs))

\* the two for loops: p after p.append(key, String(v)) for every v of every
\* entry from entry i on
RECURSIVE Appended(_, _, _)
Appended(entries, i, p) ==
  IF i > Len(entries) THEN p
  ELSE LET vs == toArray(entries[i].val)
       IN Appended(entries, i + 1,
                   p \o [j \in 1..Len(vs) |->
                           [name |-> entries[i].key, value |-> StringOf(vs[j])]])

stringifyQuery(query) ==
  IF query.t = "undefined" THEN <<>>
  ELSE IF query.t = "string"
    THEN IF query.s # <<>> /\ Head(query.s) = "?" THEN query.s ELSE <<"?">> \o query.s
  ELSE <<"?">> \o ParamsToString(Appended(query.entries, 1, <<>>))

\* stringifyQuery(query) was called / has returned out
QueryRun(query, returned, out) ==
  [asked |-> TRUE, query |-> query, returned |-> returned, out |-> out]

StringifyQuery ==
  /\ queryRun.asked
  /\ ~queryRun.returned
  /\ queryRun' = QueryRun(queryRun.query, TRUE, stringifyQuery(queryRun.query))
  /\ UNCHANGED <<token, ssToken, ssOriginal, ready, fetchSet, authVars, gateVars,
                 pipeVars, cacheVars, analyticsVars, upload, heapRun, impStatus, xhrRun>>

\* a freshly constructed APIBase whose stringifyQuery has just been
\* called, nothing being stored
InitQuery ==
  /\ Constructed
  /\ ssToken = Absent
  /\ upload = NoUpload
  /\ heapRun = NoHeapRun
  /\ impStatus = NoStatus
  /\ queryRun \in {QueryRun(q, FALSE, <<>>) : q \in Queries(MaxKeys)}
  /\ xhrRun = NoXhrRun

NextQuery == StringifyQuery

SpecQuery == InitQuery /\ [][NextQuery]_vars

\* the pieces of str between the characters sep
RECURSIVE SplitOn(_, _)
SplitOn(str, sep) ==
  IF \A i \in 1..Len(str) : str[i] # sep THEN <<str>>
  ELSE LET i == CHOOSE k \in 1..Len(str) :
                  str[k] = sep /\ \A j \in 1..(k - 1) : str[j] # sep
       IN <<SubSeq(str, 1, i - 1)>> \o SplitOn(SubSeq(str, i + 1, Len(str)), sep)

\* str read back as a query-string component
RECURSIVE Unescaped(_)
Unescaped(str) ==
  IF str = <<>> THEN <<>>
  ELSE IF Head(str) = "+" THEN <<" ">> \o Unescaped(Tail(str))
  ELSE IF Head(str) = "%" /\ Len(str) >= 3
    THEN <<CHOOSE c \in DOMAIN Escapes : Escapes[c] = SubSeq(str, 1, 3)>>
           \o Unescaped(SubSeq(str, 4, Len(str)))
  ELSE <<Head(str)>> \o Unescaped(Tail(str))

\* the name/value pairs a server reads from the query string str
ParsedPairs(str) ==
  IF str = <<>> THEN <<>>
  ELSE LET parts == SplitOn(str, "&")
       IN [i \in 1..Len(parts) |->
             LET nv == SplitOn(parts[i], "=")
             IN [name |-> Unescaped(nv[1]),
                 value |-> IF Len(nv) > 1 THEN Unescaped(nv[2]) ELSE <<>>]]

\* the pairs the claim asks for: per key in mapping order, one pair per
\* element of an array value in element order, one pair for a scalar value
RECURSIVE ExpectedPairs(_)
ExpectedPairs(entries) ==
  IF entries = <<>> THEN <<>>
  ELSE LET e == Head(entries)
       IN (IF e.val.t = "array"
             THEN [j \in 1..Len(e.val.items) |->
                     [name |-> e.key, value |-> StringOf(e.val.items[j])]]
           ELSE IF e.val.t \in {"string", "number"}
             THEN <<[name |-> e.key, value |-> StringOf(e.val)]>>
           ELSE <<>>)
            \o ExpectedPairs(Tail(entries))

\* C23: stringifyQuery returns '' for an absent query; a raw string as it is
\* when it starts with '?' and with a '?' put in front otherwise; and for a
\* structured mapping a '?' followed by a query string that reads back as:
\* per key in mapping order, one pair per element of an array value in
\* element order and one pair with the string form of a scalar value.
C23_QueryString ==
  (queryRun.asked /\ queryRun.returned) =>
    LET q == queryRun.query
        out == queryRun.out
    IN CASE q.t = "undefined" -> out = <<>>
         [] q.t = "string" ->
              /\ Len(out) >= 1
              /\ out[1] = "?"
              /\ out \in {q.s, <<"?">> \o q.s}
              /\ (out = q.s) <=> (Len(q.s) >= 1 /\ q.s[1] = "?")
         [] q.t = "object" ->
              /\ Len(out) >= 1
              /\ out[1] = "?"
              /\ ParsedPairs(Tail(out)) = ExpectedPairs(q.entries)

\* { q: ['a', 'b c&'], id: 10 } gives ?q=a&q=b+c%26&id=10
C23_Witness ==
  /\ queryRun.asked
  /\ queryRun.returned
  /\ queryRun.query.t = "object"
  /\ queryRun.query.entries
       = <<[key |-> <<"q">>,
            val |-> Val("array", <<>>, 0,
                        <<Val("string", <<"a">>, 0, <<>>),
                          Val("string", <<"b", " ", "c", "&">>, 0, <<>>)>>)],
           [key |-> <<"i", "d">>, val |-> Val("number", <<>>, 10, <<>>)]>>
  /\ queryRun.out
       = <<"?", "q", "=", "a", "&", "q", "=", "b", "+", "c", "%", "2", "6", "&",
           "i", "d", "=", "1", "0">>


(* ------------------------------------------------------------------------ *)
(* APIBase.uploadWithProgress                                               *)
(* ------------------------------------------------------------------------ *)

\* the most progress events the upload of one call fires
MaxReports == 2

\* progress({ loaded, total, ratio }); ratio is in thousandths
Report(loaded, total, ratio) ==
  [idle |-> FALSE, loaded |-> loaded, total |-> total, ratio |-> ratio]

\* progress(undefined)
Idle == [idle |-> TRUE, loaded |-> 0, total |-> 0, ratio |-> 0]

\* the progress events of an upload of MaxReports chunks; total is 0 when the
\* length is not computable
ProgressEvents ==
  {[lengthComputable |-> c, loaded |-> l, total |-> IF c THEN MaxReports ELSE 0] :
     c \in BOOLEAN, l \in 1..MaxReports}

\* e.lengthComputable ? e.loaded / e.total : 0.1
Ratio(e) == IF e.lengthComputable THEN (e.loaded * 1000) \div e.total ELSE 100

Settled(kind, why) == [kind |-> kind, why |-> why]

\* variant: progress(undefined) follows the await inside the try block
ProgressAfterResolve(log, outcome) ==
  IF outcome.kind = "resolve" THEN Append(log, Idle) ELSE log

\* finally { progress(undefined) }
ProgressAfterSettle(log, outcome) == Append(log, Idle)

XhrUnchanged ==
  UNCHANGED <<token, ssToken, ssOriginal, ready, fetchSet, authVars, gateVars,
              pipeVars, cacheVars, analyticsVars, upload, heapRun, impStatus, queryRun>>

\* uploadWithProgress(path, formData, progress) is called and stops at
\* await this.readyPromise
UploadWithProgress ==
  /\ xhrRun.pc \in {"", "done"}
  /\ xhrRun' = [pc |-> "waiting", auth |-> Absent, log |-> <<>>, outcome |-> NoOutcome]
  /\ XhrUnchanged

\* The call resumes and runs the promise executor: progress with zeros, a
\* new request opened, its headers set, its listeners added, send.  threw
\* names the statement that threw, if one did; the catch rejects with it.
UploadStart(threw) ==
  /\ xhrRun.pc = "waiting"
  /\ GateOpen(ready)
  /\ xhrRun' =
       [pc |-> IF threw = "" THEN "sending" ELSE "settled",
        auth |-> IF threw = "progress" \/ ~Truthy(token) THEN Absent ELSE token,
        log |-> <<Report(0, 0, 0)>>,
        outcome |-> IF threw = "" THEN NoOutcome ELSE Settled("reject", threw)]
  /\ XhrUnchanged

\* request.upload fires progress
UploadProgress(e) ==
  /\ xhrRun.pc = "sending"
  /\ Len(xhrRun.log) <= MaxReports
  /\ \A i \in 1..Len(xhrRun.log) : xhrRun.log[i].loaded <= e.loaded
  /\ xhrRun' = [xhrRun EXCEPT !.log = Append(@, Report(e.loaded, e.total, Ratio(e)))]
  /\ XhrUnchanged

\* the request fires load: a status of 400 or more rejects with the
\* response text, a response that parses resolves, another one rejects
UploadLoad(status, parses) ==
  /\ xhrRun.pc = "sending"
  /\ xhrRun' =
       [xhrRun EXCEPT
          !.pc = "settled",
          !.outcome = IF status >= 400 THEN Settled("reject", "responseText")
                      ELSE IF parses THEN Settled("resolve", "JSON")
                      ELSE Settled("reject", "SyntaxError")]
  /\ XhrUnchanged

\* the request fires abort
UploadAbort ==
  /\ xhrRun.pc = "sending"
  /\ xhrRun' = [xhrRun EXCEPT !.pc = "settled",
                              !.outcome = Settled("reject", "Upload aborted.")]
  /\ XhrUnchanged

\* the request fires error
UploadError ==
  /\ xhrRun.pc = "sending"
  /\ xhrRun' =
       [xhrRun EXCEPT
          !.pc = "settled",
          !.outcome = Settled("reject",
                              "An error occurred during transfer. Upload not completed.")]
  /\ XhrUnchanged

\* the await of the settled promise returns or throws, and the finally
\* block runs
UploadFinally ==
  /\ xhrRun.pc = "settled"
  /\ xhrRun' = [xhrRun EXCEPT !.pc = "done",
                              !.log = ProgressAfterSettle(@, xhrRun.outcome)]
  /\ XhrUnchanged

NextXhr ==
  \/ \E t \in PipeInits, f \in BOOLEAN : GateInit(t, f)
  \/ UploadWithProgress
  \/ \E threw \in {"", "progress", "open", "send"} : UploadStart(threw)
  \/ \E e \in ProgressEvents : UploadProgress(e)
  \/ \E status \in Statuses, parses \in BOOLEAN : UploadLoad(status, parses)
  \/ UploadAbort
  \/ UploadError
  \/ UploadFinally

SpecXhr == Init /\ [][NextXhr]_vars

\* A settled promise is awaited: its continuation, the finally block
\* included, runs.
SpecXhrFair == SpecXhr /\ WF_vars(UploadFinally)

\* C27: however an uploadWithProgress call ends -- the response loaded and
\* parsed, a status of 400 or more, a response that does not parse, abort, a
\* network error, or a throw while reporting, opening or sending -- progress
\* is called with undefined once, as the last of its calls, after every
\* report, and the call does not end without it.
C27_ProgressReturnsToIdle ==
  /\ [](/\ \A i \in 1..Len(xhrRun.log) :
             xhrRun.log[i].idle => (i = Len(xhrRun.log) /\ xhrRun.pc = "done")
        /\ xhrRun.pc = "done"
             => /\ xhrRun.outcome.kind \in {"resolve", "reject"}
                /\ Len(xhrRun.log) >= 2
                /\ xhrRun.log[Len(xhrRun.log)] = Idle)
  /\ (xhrRun.pc = "settled") ~> (xhrRun.pc = "done")

\* an upload aborted after two progress events has reported idle last
C27_Witness ==
  /\ xhrRun.pc = "done"
  /\ xhrRun.outcome = Settled("reject", "Upload aborted.")
  /\ Len(xhrRun.log) = 4
  /\ xhrRun.log[2].ratio = 100
  /\ xhrRun.log[3].ratio = 1000
  /\ xhrRun.log[4] = Idle

====
